---- MODULE Spec2Model ----
(***************************************************************************)
(* libstore: the Ops storage contract, its four backends (InMemoryOps,     *)
(* fileOps, dbOps, S3Ops), and the CryptStore decorator.                   *)
(*                                                                         *)
(* A []byte is a sequence of one-character strings ("LF" is the newline    *)
(* byte 0x0A, "CR" the carriage return 0x0D).  A run exercises one backend *)
(* instance, chosen at Init, starting from the empty store its constructor *)
(* leaves.                                                                 *)
(***************************************************************************)
EXTENDS Integers, Sequences, FiniteSets, TLC

VARIABLES
    backend,   \* which Ops implementation this run exercises
    store,     \* InMemoryOps.store : map[string][][]byte
    files,     \* fileOps: regular files under location, name -> content
    rows,      \* dbOps: the FILES table, in insertion order
    objects,   \* S3Ops: the bucket, object key -> body
    now,       \* the wall clock time.Now() reads, in nanoseconds
    ret,       \* the last call and what it returned
    hist,      \* history of the calls made directly on the backend: for each key
               \* whose Create succeeded and that no successful Delete removed
               \* since, the entries successfully Put to it since
    sealed,    \* history: for each key whose latest write was a successful
               \* CryptStore.Put, the plaintext, the clock reading and the vault
               \* of that Put, and whether the stored vault is still as sealed
    calls      \* for each goroutine calling the backend concurrently: the call
               \* it is in, its context, and how far the call has got

vars == <<backend, store, files, rows, objects, now, ret, hist, sealed, calls>>

----------------------------------------------------------------------------
(* Bounds of the model *)

\* rows of the FILES table
MaxRows == 3
\* successful Puts to one created key
MaxPuts == 3
\* values the wrapped store returns for one key in the runs through CryptStore
MaxVaults == 2
\* the clock runs from 0 to MaxClock ticks
MaxClock == 1
\* integers passed to TranslateToError: from MaxBeyond below ErrUnknown to
\* MaxBeyond above ErrKeyNotFound
MaxBeyond == 2
\* time.Time counts nanoseconds (the layout's .999999999)
NanosPerSec == 1000000000
\* the clock advances an eighth of a second in one tick
TickNanos == NanosPerSec \div 8

----------------------------------------------------------------------------
(* Inputs *)

Backends == {"mem", "file", "db", "s3"}

\* Keys in S3's listing order (UTF-8 binary order); the empty string is a Go string too.
KeyOrder == <<"", "a", "b">>
Keys == {KeyOrder[i] : i \in 1..Len(KeyOrder)}

\* The keys the callers of backend b use.  filepath.Join(location, "") is the
\* directory itself and S3 rejects an empty object key, so "" names no file
\* and no object.
KeysOf(b) == IF b \in {"file", "s3"} THEN {"a", "b"} ELSE {"", "a"}

Hello == <<"h", "e", "l", "l", "o">>
World == <<"w", "o", "r", "l", "d">>

\* Entries a caller writes: the empty entry, one with an inner newline, and
\* the two of the spec's scenario.
Entries == {<<>>, <<"a", "LF", "b">>, Hello, World}

----------------------------------------------------------------------------
(* Errors.  kind is the Go type of the error value; wrapped says it was    *)
(* built by fmt.Errorf("%w: %w", Kind(..), cause), whose dynamic type is   *)
(* *fmt.wrapErrors: errors.Is/As still find Kind, a type switch does not.  *)

NoErr == [kind |-> "nil", wrapped |-> FALSE]
Err(k) == [kind |-> k, wrapped |-> FALSE]
Wrap(k) == [kind |-> k, wrapped |-> TRUE]

\* what a mutating operation returns: the backend's next state and the error
W(st, e) == [st |-> st, err |-> e]
\* what a reading operation returns; val is <<>> (nil) with an error
R(v, e) == [val |-> v, err |-> e]

\* m without key k (Go's delete(m, k))
Without(m, k) == [x \in DOMAIN m \ {k} |-> m[x]]
\* m with m[k] = v
With(m, k, v) == [x \in DOMAIN m \cup {k} |-> IF x = k THEN v ELSE m[x]]

Last(s) == s[Len(s)]

----------------------------------------------------------------------------
(* InMemoryOps.  Each method holds ops.mu for its whole body.              *)

MemCreate(m, k) ==
    IF k \in DOMAIN m THEN W(m, Err("KeyError"))
    ELSE W(With(m, k, <<>>), NoErr)

MemReadAll(m, k) ==
    IF k \notin DOMAIN m THEN R(<<>>, Err("KeyNotFoundError"))
    ELSE R(m[k], NoErr)

MemRead(m, k) ==
    IF k \notin DOMAIN m THEN R(<<>>, Err("KeyNotFoundError"))
    ELSE IF Len(m[k]) = 0 THEN R(<<>>, Err("EntryError"))
    ELSE R(Last(m[k]), NoErr)

\* Put replaces all entries with the single new entry
MemPut(m, k, e) ==
    IF k \notin DOMAIN m THEN W(m, Err("KeyNotFoundError"))
    ELSE W(With(m, k, <<e>>), NoErr)

MemDelete(m, k) ==
    IF k \notin DOMAIN m THEN W(m, Err("KeyNotFoundError"))
    ELSE W(Without(m, k), NoErr)

\* every ordering of a set of keys: Go's map iteration order is unspecified
Orderings(S) ==
    {s \in [1..Cardinality(S) -> S] : \A i, j \in 1..Cardinality(S) : i # j => s[i] # s[j]}

\* the results List may return (one per iteration order)
MemList(m) == {R(s, NoErr) : s \in Orderings(DOMAIN m)}

----------------------------------------------------------------------------
(* fileOps.  A key is a regular file directly under location.              *)

\* bufio.ScanLines over the whole content: tokens end at "\n", a trailing "\r"
\* of a token is dropped, and a final unterminated token is returned only if
\* the remaining data is non-empty.
DropCR(t) == IF Len(t) > 0 /\ Last(t) = "CR" THEN SubSeq(t, 1, Len(t) - 1) ELSE t

RECURSIVE ScanFrom(_, _, _)
ScanFrom(data, i, tok) ==
    IF i > Len(data)
    THEN IF Len(tok) = 0 THEN <<>> ELSE <<DropCR(tok)>>
    ELSE IF data[i] = "LF"
         THEN <<DropCR(tok)>> \o ScanFrom(data, i + 1, <<>>)
         ELSE ScanFrom(data, i + 1, Append(tok, data[i]))

ScanLines(data) == ScanFrom(data, 1, <<>>)

FileCreate(f, k) ==
    IF k \in DOMAIN f THEN W(f, Err("KeyError"))          \* os.Stat: err == nil
    ELSE W(With(f, k, <<>>), NoErr)                       \* os.Create

FileReadAll(f, k) ==
    IF k \notin DOMAIN f THEN R(<<>>, Err("KeyNotFoundError"))
    ELSE R(ScanLines(f[k]), NoErr)

FileRead(f, k) ==
    IF k \notin DOMAIN f THEN R(<<>>, Err("KeyNotFoundError"))
    ELSE LET lines == ScanLines(f[k])
             lastLine == IF Len(lines) = 0 THEN <<>> ELSE Last(lines)
         IN  IF Len(lastLine) = 0 THEN R(<<>>, Err("EntryError"))
             ELSE R(lastLine, NoErr)

\* os.OpenFile without O_CREATE fails on a missing file; the error is wrapped
FilePut(f, k, e) ==
    IF k \notin DOMAIN f THEN W(f, Wrap("KeyError"))
    ELSE IF Len(f[k]) > 0 THEN W(With(f, k, f[k] \o <<"LF">> \o e), NoErr)
    ELSE W(With(f, k, e), NoErr)

FileDelete(f, k) ==
    IF k \notin DOMAIN f THEN W(f, Err("KeyNotFoundError"))   \* os.Remove: ENOENT
    ELSE W(Without(f, k), NoErr)

\* filepath.WalkDir visits the directory in lexical order
FileList(f) == R(SelectSeq(KeyOrder, LAMBDA k : k \in DOMAIN f), NoErr)

----------------------------------------------------------------------------
(* dbOps.  A row of FILES is (key, value, version); value is NULL (null =  *)
(* TRUE) in the row Create inserts.  The table has no unique constraint.   *)

Row(k, isNull, v, ver) == [key |-> k, null |-> isNull, value |-> v, version |-> ver]

RowsOf(t, k) == SelectSeq(t, LAMBDA r : r.key = k)

\* rows.Scan / QueryRow.Scan of a BYTEA column into []byte: NULL becomes nil
ScanValue(r) == IF r.null THEN <<>> ELSE r.value

\* ORDER BY version ASC over the rows of one key (rows of equal version keep
\* their insertion order)
RECURSIVE ByVersionFrom(_, _)
ByVersionFrom(rs, v) ==
    IF v > Len(rs) + 1 THEN <<>>
    ELSE SelectSeq(rs, LAMBDA r : r.version = v) \o ByVersionFrom(rs, v + 1)

ByVersion(rs) == ByVersionFrom(rs, 0)

\* COALESCE(MAX(version), 0)
MaxVersion(rs) ==
    IF Len(rs) = 0 THEN 0
    ELSE CHOOSE v \in {rs[i].version : i \in 1..Len(rs)} :
            \A i \in 1..Len(rs) : rs[i].version <= v

DbCreate(t, k) ==
    LET found == RowsOf(t, k)
        \* Scan leaves existingKey "" on sql.ErrNoRows
        existingKey == IF Len(found) = 0 THEN "" ELSE found[1].key
    IN  IF existingKey # "" THEN W(t, Err("KeyError"))
        ELSE W(Append(t, Row(k, TRUE, <<>>, 0)), NoErr)

DbDelete(t, k) ==
    LET rowsAffected == Len(RowsOf(t, k))
    IN  IF rowsAffected = 0 THEN W(t, Err("KeyNotFoundError"))
        ELSE W(SelectSeq(t, LAMBDA r : r.key # k), NoErr)

\* SELECT key FROM FILES: one element per row
DbList(t) == R([i \in 1..Len(t) |-> t[i].key], NoErr)

\* ORDER BY version DESC LIMIT 1
DbRead(t, k) ==
    LET sorted == ByVersion(RowsOf(t, k))
    IN  IF Len(sorted) = 0 THEN R(<<>>, Err("KeyNotFoundError"))
        ELSE R(ScanValue(Last(sorted)), NoErr)

DbReadAll(t, k) ==
    LET sorted == ByVersion(RowsOf(t, k))
    IN  R([i \in 1..Len(sorted) |-> ScanValue(sorted[i])], NoErr)

\* one transaction: read the max version, insert version max+1, commit
DbPut(t, k, e) ==
    W(Append(t, Row(k, FALSE, e, MaxVersion(RowsOf(t, k)) + 1)), NoErr)

----------------------------------------------------------------------------
(* S3Ops.  The bucket behaves as S3 does: HeadObject on a missing key      *)
(* fails with types.NotFound, GetObject on a missing key fails with        *)
(* types.NoSuchKey (which is not a types.NotFound), PutObject creates or   *)
(* overwrites, DeleteObject succeeds whether or not the key exists.        *)

S3Create(o, k) ==
    IF k \in DOMAIN o THEN W(o, Err("KeyError"))           \* HeadObject: err == nil
    ELSE W(With(o, k, <<>>), NoErr)                        \* PutObject, empty body

S3ReadAll(o, k) ==
    IF k \notin DOMAIN o THEN R(<<>>, Wrap("OpsInternalError"))
    ELSE R(<<o[k]>>, NoErr)

S3Read(o, k) ==
    LET all == S3ReadAll(o, k)
    IN  IF all.err # NoErr THEN R(<<>>, all.err)
        ELSE IF Len(all.val) = 0 THEN R(<<>>, Err("EntryError"))
        ELSE R(Last(all.val), NoErr)

S3Put(o, k, e) == W(With(o, k, e), NoErr)

S3Delete(o, k) == W(Without(o, k), NoErr)

\* ListObjectsV2 returns keys in UTF-8 binary order
S3List(o) == R(SelectSeq(KeyOrder, LAMBDA k : k \in DOMAIN o), NoErr)

----------------------------------------------------------------------------
(* The Ops interface: a call goes to the implementation the run exercises. *)

\* the state of the backend b
StateOf(b) ==
    CASE b = "mem"  -> store
      [] b = "file" -> files
      [] b = "db"   -> rows
      [] b = "s3"   -> objects

OpsCreate(b, st, k) ==
    CASE b = "mem"  -> MemCreate(st, k)
      [] b = "file" -> FileCreate(st, k)
      [] b = "db"   -> DbCreate(st, k)
      [] b = "s3"   -> S3Create(st, k)

OpsReadAll(b, st, k) ==
    CASE b = "mem"  -> MemReadAll(st, k)
      [] b = "file" -> FileReadAll(st, k)
      [] b = "db"   -> DbReadAll(st, k)
      [] b = "s3"   -> S3ReadAll(st, k)

OpsRead(b, st, k) ==
    CASE b = "mem"  -> MemRead(st, k)
      [] b = "file" -> FileRead(st, k)
      [] b = "db"   -> DbRead(st, k)
      [] b = "s3"   -> S3Read(st, k)

OpsPut(b, st, k, e) ==
    CASE b = "mem"  -> MemPut(st, k, e)
      [] b = "file" -> FilePut(st, k, e)
      [] b = "db"   -> DbPut(st, k, e)
      [] b = "s3"   -> S3Put(st, k, e)

OpsDelete(b, st, k) ==
    CASE b = "mem"  -> MemDelete(st, k)
      [] b = "file" -> FileDelete(st, k)
      [] b = "db"   -> DbDelete(st, k)
      [] b = "s3"   -> S3Delete(st, k)

\* the set of results List may return
OpsList(b, st) ==
    CASE b = "mem"  -> MemList(st)
      [] b = "file" -> {FileList(st)}
      [] b = "db"   -> {DbList(st)}
      [] b = "s3"   -> {S3List(st)}

\* the key exists in the backend's medium
Exists(b, st, k) ==
    CASE b = "db" -> Len(RowsOf(st, k)) > 0
      [] OTHER    -> k \in DOMAIN st

\* the model's size limit on a backend state
WithinBounds(b, st) == b = "db" => Len(st) <= MaxRows

\* the backend b moves to state st, the other backends stay as they are
Becomes(b, st) ==
    /\ store'   = IF b = "mem"  THEN st ELSE store
    /\ files'   = IF b = "file" THEN st ELSE files
    /\ rows'    = IF b = "db"   THEN st ELSE rows
    /\ objects' = IF b = "s3"   THEN st ELSE objects

Call(op, k, err, val) == [op |-> op, key |-> k, err |-> err, val |-> val]

\* the goroutines that call the backend concurrently, and one in no call
Callers == {1, 2}
Idle == [op |-> "idle"]

----------------------------------------------------------------------------
(* The storage contract called directly on the backend.                    *)

Init ==
    /\ backend \in Backends
    /\ store = <<>>
    /\ files = <<>>
    /\ rows = <<>>
    /\ objects = <<>>
    /\ now = 0
    /\ ret = Call("New", "", NoErr, <<>>)
    /\ hist = <<>>
    /\ sealed = <<>>
    /\ calls = [c \in Callers |-> Idle]

Create(k) ==
    LET r == OpsCreate(backend, StateOf(backend), k)
    IN  /\ WithinBounds(backend, r.st)
        /\ Becomes(backend, r.st)
        /\ ret' = Call("Create", k, r.err, <<>>)
        /\ hist' = IF r.err = NoErr THEN With(hist, k, <<>>) ELSE hist
        /\ sealed' = IF r.err = NoErr THEN Without(sealed, k) ELSE sealed
        /\ UNCHANGED <<calls, backend, now>>

Put(k, e) ==
    LET r == OpsPut(backend, StateOf(backend), k, e)
        recorded == r.err = NoErr /\ k \in DOMAIN hist
    IN  /\ WithinBounds(backend, r.st)
        /\ recorded => Len(hist[k]) < MaxPuts
        /\ Becomes(backend, r.st)
        /\ ret' = Call("Put", k, r.err, <<>>)
        /\ hist' = IF recorded THEN With(hist, k, Append(hist[k], e)) ELSE hist
        /\ sealed' = IF r.err = NoErr THEN Without(sealed, k) ELSE sealed
        /\ UNCHANGED <<calls, backend, now>>

Delete(k) ==
    LET r == OpsDelete(backend, StateOf(backend), k)
    IN  /\ Becomes(backend, r.st)
        /\ ret' = Call("Delete", k, r.err, <<>>)
        /\ hist' = IF r.err = NoErr THEN Without(hist, k) ELSE hist
        /\ sealed' = IF r.err = NoErr THEN Without(sealed, k) ELSE sealed
        /\ UNCHANGED <<calls, backend, now>>

Read(k) ==
    LET r == OpsRead(backend, StateOf(backend), k)
    IN  /\ ret' = Call("Read", k, r.err, r.val)
        /\ UNCHANGED <<calls, backend, store, files, rows, objects, now, hist, sealed>>

ReadAll(k) ==
    LET r == OpsReadAll(backend, StateOf(backend), k)
    IN  /\ ret' = Call("ReadAll", k, r.err, r.val)
        /\ UNCHANGED <<calls, backend, store, files, rows, objects, now, hist, sealed>>

List ==
    \E r \in OpsList(backend, StateOf(backend)) :
        /\ ret' = Call("List", "", r.err, r.val)
        /\ UNCHANGED <<calls, backend, store, files, rows, objects, now, hist, sealed>>

Next ==
    \/ \E k \in KeysOf(backend) : Create(k)
    \/ \E k \in KeysOf(backend), e \in Entries : Put(k, e)
    \/ \E k \in KeysOf(backend) : Delete(k)
    \/ \E k \in KeysOf(backend) : Read(k)
    \/ \E k \in KeysOf(backend) : ReadAll(k)
    \/ List

Spec == Init /\ [][Next]_vars

\* the runs against dbOps, and those against fileOps
InitDb == Init /\ backend = "db"
SpecDb == InitDb /\ [][Next]_vars

InitFile == Init /\ backend = "file"
SpecFile == InitFile /\ [][Next]_vars

----------------------------------------------------------------------------
(* Properties of the storage contract                                      *)

Range(s) == {s[i] : i \in 1..Len(s)}

BackendState == StateOf(backend)

\* C1: on every backend, after Create(x), Put(x, "hello"), Put(x, "world") on
\* a key that did not exist, with nothing else done to x, ReadAll(x) is exactly
\* <<"hello", "world">> and Read(x) is "world".
C1_HelloWorldScenario ==
    \A x \in DOMAIN hist :
        hist[x] = <<Hello, World>> =>
            /\ OpsReadAll(backend, BackendState, x) = R(<<Hello, World>>, NoErr)
            /\ OpsRead(backend, BackendState, x) = R(World, NoErr)

\* C2: after Create(k), Put(k, v1), Put(k, v2), Read(k) is v2 and ReadAll(k)
\* ends with v2; on fileOps and dbOps v1 is still there at an earlier position.
C2_LatestAndHistory ==
    \A k \in DOMAIN hist :
        Len(hist[k]) = 2 =>
            LET v1 == hist[k][1]
                v2 == hist[k][2]
                one == OpsRead(backend, BackendState, k)
                all == OpsReadAll(backend, BackendState, k)
            IN  /\ one = R(v2, NoErr)
                /\ all.err = NoErr
                /\ Len(all.val) > 0
                /\ Last(all.val) = v2
                /\ backend \in {"file", "db"} =>
                       \E i \in 1..(Len(all.val) - 1) : all.val[i] = v1

\* C3: on every backend, right after a successful Create(k) of a key that did
\* not exist, ReadAll(k) succeeds with the empty sequence and Read(k) fails
\* with EntryError.
C3_EmptyAfterCreate ==
    (ret.op = "Create" /\ ret.err = NoErr) =>
        /\ OpsReadAll(backend, BackendState, ret.key) = R(<<>>, NoErr)
        /\ OpsRead(backend, BackendState, ret.key) = R(<<>>, Err("EntryError"))

\* C4: Create(k) on a key that exists fails with KeyError and changes nothing:
\* the keys List returns and what ReadAll(k) returns stay as they were.
C4_CreateExistingFails ==
    [][(ret'.op = "Create" /\ Exists(backend, BackendState, ret'.key)) =>
          /\ ret'.err = Err("KeyError")
          /\ OpsList(backend, BackendState') = OpsList(backend, BackendState)
          /\ OpsReadAll(backend, BackendState', ret'.key)
               = OpsReadAll(backend, BackendState, ret'.key)
          /\ UNCHANGED <<store, files, rows, objects>>]_vars

\* C5: Delete(k) of a key that does not exist fails with KeyNotFoundError and
\* changes nothing; Delete(k) of an existing key succeeds and a ReadAll(k)
\* after it fails with KeyNotFoundError.
C5_DeleteThenNotFound ==
    [][ret'.op = "Delete" =>
          IF Exists(backend, BackendState, ret'.key)
          THEN /\ ret'.err = NoErr
               /\ OpsReadAll(backend, BackendState', ret'.key)
                    = R(<<>>, Err("KeyNotFoundError"))
          ELSE /\ ret'.err = Err("KeyNotFoundError")
               /\ UNCHANGED <<store, files, rows, objects>>]_vars

\* C6: the keys List returns are, as a set, exactly the keys created and not
\* deleted since.
C6_ListIsLiveKeys ==
    \A r \in OpsList(backend, BackendState) :
        r.err = NoErr /\ Range(r.val) = DOMAIN hist

----------------------------------------------------------------------------
(* The freshness timestamp: time.Now().UTC().Format(tsFormat) and          *)
(* time.Parse(tsFormat, ..).  An instant is a count of nanoseconds; its    *)
(* text is the seconds in decimal (standing for the date and time fields), *)
(* then, if the nanoseconds are not zero, "." and the nine nanosecond      *)
(* digits with trailing zeros removed (the layout's .999999999), then the  *)
(* zone " +0000 UTC".                                                      *)

Digit == <<"0", "1", "2", "3", "4", "5", "6", "7", "8", "9">>
ZoneUTC == " +0000 UTC"

RECURSIVE Pow10(_)
Pow10(n) == IF n = 0 THEN 1 ELSE 10 * Pow10(n - 1)

RECURSIVE Decimal(_)
Decimal(n) == IF n < 10 THEN <<Digit[n + 1]>> ELSE Append(Decimal(n \div 10), Digit[(n % 10) + 1])

Frac9(ns) == [i \in 1..9 |-> Digit[((ns \div Pow10(9 - i)) % 10) + 1]]

RECURSIVE TrimZeros(_)
TrimZeros(d) ==
    IF Len(d) > 0 /\ Last(d) = "0" THEN TrimZeros(SubSeq(d, 1, Len(d) - 1)) ELSE d

FormatTs(t) ==
    LET ns == t % NanosPerSec
    IN  Decimal(t \div NanosPerSec)
          \o (IF ns = 0 THEN <<>> ELSE <<".">> \o TrimZeros(Frac9(ns)))
          \o <<ZoneUTC>>

IsDigits(d) == \A i \in 1..Len(d) : \E n \in 1..10 : Digit[n] = d[i]

RECURSIVE Number(_)
Number(d) ==
    IF Len(d) = 0 THEN 0
    ELSE 10 * Number(SubSeq(d, 1, Len(d) - 1)) + (CHOOSE n \in 0..9 : Digit[n + 1] = Last(d))

\* [ok, t]: the instant a text denotes, or ok = FALSE (*time.ParseError)
ParseTs(text) ==
    LET bad == [ok |-> FALSE, t |-> 0]
        body == SubSeq(text, 1, Len(text) - 1)
        dots == {i \in 1..Len(body) : body[i] = "."}
    IN  IF Len(text) < 2 \/ Last(text) # ZoneUTC \/ Cardinality(dots) > 1 THEN bad
        ELSE LET dot == IF dots = {} THEN Len(body) + 1 ELSE CHOOSE i \in dots : TRUE
                 secs == SubSeq(body, 1, dot - 1)
                 frac == SubSeq(body, dot + 1, Len(body))
             IN  IF \/ Len(secs) = 0 \/ ~IsDigits(secs) \/ ~IsDigits(frac)
                    \/ (dots # {} /\ Len(frac) = 0) \/ Len(frac) > 9
                 THEN bad
                 ELSE [ok |-> TRUE,
                       t  |-> Number(secs) * NanosPerSec + Number(frac) * Pow10(9 - Len(frac))]

----------------------------------------------------------------------------
(* The cipher capability (libcipher): authenticated encryption of an entry *)
(* with associated data.  The vault holds the length of the associated     *)
(* data, the associated data, the IV the encryptor drew from rand, the     *)
(* ciphertext and the tag.  The tag is an injective function of what it    *)
(* authenticates, computed with the key; confidentiality is not modelled   *)
(* (the ciphertext stands for itself).                                     *)

Mac(ad, iv, ct) == ToString(<<ad, iv, ct>>)

\* encryptor.Crypt(entry, ts), iv being the byte read from rand
Seal(entry, ad, iv) == <<ToString(Len(ad))>> \o ad \o <<iv>> \o entry \o <<Mac(ad, iv, entry)>>

\* decryptor.Crypt(vault): [ok, pt, ad]; ok = FALSE is the cipher's error
Open(vault) ==
    LET bad == [ok |-> FALSE, pt |-> <<>>, ad |-> <<>>]
        lens == {n \in 0..(Len(vault) - 3) : ToString(n) = vault[1]}
    IN  IF Len(vault) < 3 \/ lens = {} THEN bad
        ELSE LET n  == CHOOSE x \in lens : TRUE
                 ad == SubSeq(vault, 2, n + 1)
                 iv == vault[n + 2]
                 ct == SubSeq(vault, n + 3, Len(vault) - 1)
             IN  IF Last(vault) # Mac(ad, iv, ct) THEN bad
                 ELSE [ok |-> TRUE, pt |-> ct, ad |-> ad]

----------------------------------------------------------------------------
(* CryptStore, wrapping the backend b in state st.  t is what time.Now()   *)
(* reads during the call.                                                  *)

\* what stands for the IV when reading rand fails: encryptor.Crypt returns an error
RandEOF == "EOF"

\* a Put that forwards the vault it got along with the encryptor's error
CryptStorePutAnyway(b, st, k, entry, t, iv) ==
    IF iv = RandEOF THEN W(OpsPut(b, st, k, <<>>).st, Wrap("DecryptionError"))
    ELSE OpsPut(b, st, k, Seal(entry, FormatTs(t), iv))

\* the encryptor's error comes back as fmt.Errorf("%w: %w", DecryptionError(..), err)
CryptStorePut(b, st, k, entry, t, iv) ==
    LET ts == FormatTs(t)
        vault == Seal(entry, ts, iv)
    IN  IF iv = RandEOF THEN W(st, Wrap("DecryptionError"))
        ELSE OpsPut(b, st, k, vault)

CryptStoreCreate(b, st, k) == OpsCreate(b, st, k)

\* a Delete that drops the wrapped store's error
CryptStoreDeleteQuiet(b, st, k) == W(OpsDelete(b, st, k).st, NoErr)

CryptStoreDelete(b, st, k) == OpsDelete(b, st, k)

CryptStoreList(b, st) == OpsList(b, st)

\* a Read that also rejects a timestamp equal to the clock reading
CryptStoreReadNotBefore(b, st, k, t) ==
    LET r == OpsRead(b, st, k)
    IN  IF r.err # NoErr THEN R(<<>>, r.err)
        ELSE LET o == Open(r.val)
             IN  IF ~o.ok THEN R(<<>>, Err("CipherError"))
                 ELSE LET ts == ParseTs(o.ad)
                      IN  IF ~ts.ok THEN R(<<>>, Err("ParseError"))
                          ELSE IF ts.t >= t THEN R(<<>>, Err("ValidationError"))
                          ELSE R(o.pt, NoErr)

\* a Read that goes on with what the cipher returned along with its error
CryptStoreReadUnchecked(b, st, k, t) ==
    LET r == OpsRead(b, st, k)
    IN  IF r.err # NoErr THEN R(<<>>, r.err)
        ELSE LET o == Open(r.val)
                 ts == ParseTs(o.ad)
             IN  IF ~ts.ok THEN R(<<>>, Err("ParseError"))
                 ELSE IF ts.t > t THEN R(<<>>, Err("ValidationError"))
                 ELSE R(o.pt, NoErr)

\* errors: the wrapped store's, the cipher's, *time.ParseError, ValidationError
CryptStoreRead(b, st, k, t) ==
    LET r == OpsRead(b, st, k)
    IN  IF r.err # NoErr THEN R(<<>>, r.err)
        ELSE LET o == Open(r.val)
             IN  IF ~o.ok THEN R(<<>>, Err("CipherError"))
                 ELSE LET ts == ParseTs(o.ad)
                      IN  IF ~ts.ok THEN R(<<>>, Err("ParseError"))
                          ELSE IF ts.t > t THEN R(<<>>, Err("ValidationError"))
                          ELSE R(o.pt, NoErr)

\* a loop that leaves out the envelopes that fail and returns the others
RECURSIVE OpenAllBestEffort(_, _, _, _)
OpenAllBestEffort(vaults, clocks, i, res) ==
    IF i > Len(vaults) THEN R(res, NoErr)
    ELSE LET o == Open(vaults[i])
             ts == ParseTs(o.ad)
         IN  IF o.ok /\ ts.ok /\ ts.t <= clocks[i]
             THEN OpenAllBestEffort(vaults, clocks, i + 1, Append(res, o.pt))
             ELSE OpenAllBestEffort(vaults, clocks, i + 1, res)

\* the loop of ReadAll from index i on, res holding the plaintexts so far;
\* clocks[i] is what time.Now() reads in iteration i
RECURSIVE OpenAllFrom(_, _, _, _)
OpenAllFrom(vaults, clocks, i, res) ==
    IF i > Len(vaults) THEN R(res, NoErr)
    ELSE LET o == Open(vaults[i])
         IN  IF ~o.ok THEN R(<<>>, Err("CipherError"))
             ELSE LET ts == ParseTs(o.ad)
                  IN  IF ~ts.ok THEN R(<<>>, Err("ParseError"))
                      ELSE IF ts.t > clocks[i] THEN R(<<>>, Err("ValidationError"))
                      ELSE OpenAllFrom(vaults, clocks, i + 1, Append(res, o.pt))

CryptStoreReadAll(b, st, k, clocks) ==
    LET r == OpsReadAll(b, st, k)
    IN  IF r.err # NoErr THEN R(<<>>, r.err)
        ELSE OpenAllFrom(r.val, clocks, 1, <<>>)

----------------------------------------------------------------------------
(* The storage contract called through CryptStore, on a store that other   *)
(* parties reach too: a second CryptStore with the same keys whose clock   *)
(* runs ahead, a caller that puts values straight into the wrapped store,  *)
(* and an adversary that alters a stored vault.                            *)

\* InMemoryOps, dbOps and S3Ops store a vault as one opaque value; fileOps
\* splits what it stores at newline bytes and has runs of its own
CryptBackends == {"mem", "db", "s3"}
CryptKeys == {"a"}
Plaintexts == {<<>>, <<"p">>}
\* what the instance whose clock runs ahead puts
AheadPlaintexts == {<<"p">>}

\* The bytes rand may give as IV.  Any byte may come; where the vault is
\* stored as one opaque value one byte stands for all.
IVsOf(b) == IF b = "file" THEN {"n", "LF"} ELSE {"n"}

\* the clock readings of this model
ClockRange == {j * TickNanos : j \in 0..MaxClock}
\* what the clock that runs ahead reads when this one reads t
Ahead(t) == t + TickNanos

\* the readings time.Now() may give in the n iterations of one ReadAll that
\* starts at reading t0: the wall clock does not go back
ClockSeqs(n, t0) ==
    {c \in [1..n -> ClockRange] :
        /\ \A i \in 1..n : c[i] >= t0
        /\ \A i \in 1..(n - 1) : c[i] <= c[i + 1]}

\* values put into the wrapped store without CryptStore: an entry that was
\* never sealed, and one sealed with associated data that is no timestamp
DirectValues == {Hello, Seal(<<>>, <<"x">>, "n")}

\* the byte a bit flip makes of byte c
Flip(c) == IF c = "0" THEN "1" ELSE "0"

\* vault v with its byte i flipped
Flipped(v, i) == [v EXCEPT ![i] = Flip(v[i])]

\* the backend state with v, the value written last under k, replaced by w
Replaced(b, st, k, v, w) ==
    CASE b = "mem"  -> With(st, k, [st[k] EXCEPT ![Len(st[k])] = w])
      [] b = "file" -> With(st, k, SubSeq(st[k], 1, Len(st[k]) - Len(v)) \o w)
      [] b = "s3"   -> With(st, k, w)
      [] b = "db"   ->
            LET top == Last(ByVersion(RowsOf(st, k)))
                j == CHOOSE i \in 1..Len(st) : st[i] = top
            IN  [st EXCEPT ![j] = Row(k, FALSE, w, top.version)]

\* the model's size limit on the wrapped store
CryptBounds(b, st) ==
    CASE b = "db"   -> Len(st) <= MaxVaults
      [] b = "file" -> \A k \in DOMAIN st : Len(ScanLines(st[k])) <= MaxVaults
      [] OTHER      -> TRUE

InitCrypt == Init /\ backend \in CryptBackends

Tick ==
    /\ now + TickNanos <= MaxClock * TickNanos
    /\ now' = now + TickNanos
    /\ UNCHANGED <<calls, backend, store, files, rows, objects, ret, hist, sealed>>

CryptCreate(k) ==
    LET r == CryptStoreCreate(backend, BackendState, k)
    IN  /\ CryptBounds(backend, r.st)
        /\ Becomes(backend, r.st)
        /\ ret' = Call("CryptCreate", k, r.err, <<>>)
        /\ sealed' = IF r.err = NoErr THEN Without(sealed, k) ELSE sealed
        /\ UNCHANGED <<calls, backend, now, hist>>

\* iv is the byte the encryptor reads from rand
CryptPut(k, p) ==
    \E iv \in IVsOf(backend) \cup {RandEOF} :
        LET r == CryptStorePut(backend, BackendState, k, p, now, iv)
        IN  /\ CryptBounds(backend, r.st)
            /\ Becomes(backend, r.st)
            /\ ret' = Call("CryptPut", k, r.err, <<>>)
            /\ sealed' = IF r.err = NoErr
                          THEN With(sealed, k, [pt |-> p, at |-> now, intact |-> TRUE,
                                                vault |-> Seal(p, FormatTs(now), iv)])
                          ELSE sealed
            /\ UNCHANGED <<calls, backend, now, hist>>

CryptDelete(k) ==
    LET r == CryptStoreDelete(backend, BackendState, k)
    IN  /\ Becomes(backend, r.st)
        /\ ret' = Call("CryptDelete", k, r.err, <<>>)
        /\ sealed' = IF r.err = NoErr THEN Without(sealed, k) ELSE sealed
        /\ UNCHANGED <<calls, backend, now, hist>>

\* a Read that removes the key whose value it could not return
CryptReadPurging(k) ==
    LET r == CryptStoreRead(backend, BackendState, k, now)
        d == IF r.err = NoErr THEN BackendState
             ELSE OpsDelete(backend, BackendState, k).st
    IN  /\ ret' = Call("CryptRead", k, r.err, r.val)
        /\ Becomes(backend, d)
        /\ UNCHANGED <<calls, backend, now, hist, sealed>>

CryptRead(k) ==
    LET r == CryptStoreRead(backend, BackendState, k, now)
    IN  /\ ret' = Call("CryptRead", k, r.err, r.val)
        /\ UNCHANGED <<calls, backend, store, files, rows, objects, now, hist, sealed>>

CryptReadAll(k) ==
    LET n == Len(OpsReadAll(backend, BackendState, k).val)
    IN  \E clocks \in ClockSeqs(n, now) :
            LET r == CryptStoreReadAll(backend, BackendState, k, clocks)
            IN  /\ ret' = Call("CryptReadAll", k, r.err, r.val)
                /\ now' = IF n = 0 THEN now ELSE clocks[n]
                /\ UNCHANGED <<calls, backend, store, files, rows, objects, hist, sealed>>

CryptList ==
    \E r \in CryptStoreList(backend, BackendState) :
        /\ ret' = Call("CryptList", "", r.err, r.val)
        /\ UNCHANGED <<calls, backend, store, files, rows, objects, now, hist, sealed>>

\* CryptStore.Put by the instance whose clock runs ahead of this one's
AheadPut(k, p) ==
    LET r == CryptStorePut(backend, BackendState, k, p, Ahead(now), "n")
    IN  /\ CryptBounds(backend, r.st)
        /\ Becomes(backend, r.st)
        /\ ret' = Call("AheadPut", k, r.err, <<>>)
        /\ sealed' = IF r.err = NoErr THEN Without(sealed, k) ELSE sealed
        /\ UNCHANGED <<calls, backend, now, hist>>

\* Put on the wrapped store itself
DirectPut(k, v) ==
    LET r == OpsPut(backend, BackendState, k, v)
    IN  /\ CryptBounds(backend, r.st)
        /\ Becomes(backend, r.st)
        /\ ret' = Call("DirectPut", k, r.err, <<>>)
        /\ sealed' = IF r.err = NoErr THEN Without(sealed, k) ELSE sealed
        /\ UNCHANGED <<calls, backend, now, hist>>

\* the bytes of vault v the adversary of this model flips: the first byte of
\* the associated data, and the tag
TamperAt(v) == {2, Len(v)}

\* a byte of the vault CryptStore.Put stored last under k is flipped in place
Tamper(k) ==
    /\ k \in DOMAIN sealed
    /\ sealed[k].intact
    /\ \E i \in TamperAt(sealed[k].vault) :
           Becomes(backend, Replaced(backend, BackendState, k, sealed[k].vault,
                                     Flipped(sealed[k].vault, i)))
    /\ ret' = Call("Tamper", k, NoErr, <<>>)
    /\ sealed' = With(sealed, k, [sealed[k] EXCEPT !.intact = FALSE])
    /\ UNCHANGED <<calls, backend, now, hist>>

NextCrypt ==
    \/ Tick
    \/ \E k \in CryptKeys : CryptCreate(k)
    \/ \E k \in CryptKeys, p \in Plaintexts : CryptPut(k, p)
    \/ \E k \in CryptKeys : CryptDelete(k)
    \/ \E k \in CryptKeys : CryptRead(k)
    \/ \E k \in CryptKeys : CryptReadAll(k)
    \/ CryptList
    \/ \E k \in CryptKeys, p \in AheadPlaintexts : AheadPut(k, p)
    \/ \E k \in CryptKeys, v \in DirectValues : DirectPut(k, v)
    \/ \E k \in CryptKeys : Tamper(k)

SpecCrypt == InitCrypt /\ [][NextCrypt]_vars

\* the runs of CryptStore over fileOps
InitCryptFile == Init /\ backend = "file"
SpecCryptFile == InitCryptFile /\ [][NextCrypt]_vars

----------------------------------------------------------------------------
(* Properties of CryptStore                                                *)

\* C7: CryptStore.Put(k, p) followed, with no write to k in between, by
\* CryptStore.Read(k) on the same wrapped store returns exactly p, and the
\* timestamp recovered from the envelope is no earlier than the clock reading
\* at the Put and no later than the clock reading at the Read.
C7_RoundTrip ==
    \A k \in DOMAIN sealed :
        sealed[k].intact =>
            \A t \in ClockRange :
                t >= now =>
                    LET o == Open(OpsRead(backend, BackendState, k).val)
                        ts == ParseTs(o.ad)
                    IN  /\ CryptStoreRead(backend, BackendState, k, t) = R(sealed[k].pt, NoErr)
                        /\ o.ok /\ ts.ok
                        /\ sealed[k].at <= ts.t /\ ts.t <= t

\* C8: when the wrapped store holds authentic envelopes, Read and ReadAll fail
\* with ValidationError and return nothing if the timestamp of an envelope
\* they open is strictly after the clock reading at its opening; a timestamp
\* equal to or earlier than that reading passes.
C8_Freshness ==
    \A k \in CryptKeys :
        LET one == OpsRead(backend, BackendState, k)
            all == OpsReadAll(backend, BackendState, k)
            n == Len(all.val)
            Authentic(v) == Open(v).ok /\ ParseTs(Open(v).ad).ok
            StampOf(v) == ParseTs(Open(v).ad).t
        IN  /\ (one.err = NoErr /\ Authentic(one.val)) =>
                  \A t \in ClockRange :
                      CryptStoreRead(backend, BackendState, k, t)
                        = IF StampOf(one.val) > t
                          THEN R(<<>>, Err("ValidationError"))
                          ELSE R(Open(one.val).pt, NoErr)
            /\ (all.err = NoErr /\ \A i \in 1..n : Authentic(all.val[i])) =>
                  \A clocks \in ClockSeqs(n, now) :
                      LET res == CryptStoreReadAll(backend, BackendState, k, clocks)
                      IN  IF \E i \in 1..n : StampOf(all.val[i]) > clocks[i]
                          THEN res = R(<<>>, Err("ValidationError"))
                          ELSE res.err = NoErr

\* a Read through CryptStore was refused for a timestamp ahead of the clock
C8_Witness ==
    /\ ret.op = "CryptRead"
    /\ ret.err = Err("ValidationError")
    /\ Open(OpsRead(backend, BackendState, ret.key).val).ok

\* C9: once a byte of the vault CryptStore.Put stored is altered, Read and
\* ReadAll fail, the opening of the altered vault being what fails, whichever
\* byte it is; Read never succeeds with a plaintext other than the sealed one.
C9_TamperFails ==
    \A k \in DOMAIN sealed :
        LET v == sealed[k].vault
            vaults == OpsReadAll(backend, BackendState, k).val
            n == Len(vaults)
        IN  /\ ~sealed[k].intact =>
                  /\ \A t \in ClockRange :
                         CryptStoreRead(backend, BackendState, k, t)
                           = R(<<>>, Err("CipherError"))
                  /\ \A clocks \in ClockSeqs(n, now) :
                         LET res == CryptStoreReadAll(backend, BackendState, k, clocks)
                         IN  /\ res.err # NoErr
                             /\ res.val = <<>>
                             /\ OpenAllFrom(vaults, clocks, n, <<>>)
                                  = R(<<>>, Err("CipherError"))
            /\ sealed[k].intact =>
                  \A i \in 1..Len(v), t \in ClockRange :
                      CryptStoreRead(backend,
                                     Replaced(backend, BackendState, k, v, Flipped(v, i)),
                                     k, t)
                        = R(<<>>, Err("CipherError"))
            /\ \A t \in ClockRange :
                  LET r == CryptStoreRead(backend, BackendState, k, t)
                  IN  r.err = NoErr => r.val = sealed[k].pt

\* a Read through CryptStore of a vault altered after its Put failed in the cipher
C9_Witness ==
    /\ ret.op = "CryptRead"
    /\ ret.err = Err("CipherError")
    /\ ret.key \in DOMAIN sealed
    /\ ~sealed[ret.key].intact

\* C10: CryptStore.ReadAll returns, when every envelope of the wrapped ReadAll
\* opens and is fresh, as many plaintexts as there are envelopes, the i-th
\* being that of the i-th envelope; otherwise the error of the failing envelope
\* of lowest index and a nil result.
C10_AllOrNothing ==
    \A k \in CryptKeys :
        LET all == OpsReadAll(backend, BackendState, k)
            n == Len(all.val)
            ErrorOf(v, t) ==
                IF ~Open(v).ok THEN Err("CipherError")
                ELSE IF ~ParseTs(Open(v).ad).ok THEN Err("ParseError")
                ELSE IF ParseTs(Open(v).ad).t > t THEN Err("ValidationError")
                ELSE NoErr
        IN  all.err = NoErr =>
                \A clocks \in ClockSeqs(n, now) :
                    LET res == CryptStoreReadAll(backend, BackendState, k, clocks)
                        failing == {i \in 1..n : ErrorOf(all.val[i], clocks[i]) # NoErr}
                    IN  IF failing = {}
                        THEN /\ res.err = NoErr
                             /\ Len(res.val) = n
                             /\ \A i \in 1..n : res.val[i] = Open(all.val[i]).pt
                        ELSE LET first == CHOOSE i \in failing : \A j \in failing : i <= j
                             IN  res = R(<<>>, ErrorOf(all.val[first], clocks[first]))

\* a ReadAll through CryptStore returned two different plaintexts
C10_Witness ==
    /\ ret.op = "CryptReadAll"
    /\ ret.err = NoErr
    /\ Len(ret.val) = 2
    /\ ret.val[1] # ret.val[2]

\* C11: CryptStore.Create, Delete and List return, in every state of the
\* wrapped store and for every key, exactly what the wrapped store's operation
\* returns, and a call of one of them (a step that is not a tick of the clock)
\* leaves the wrapped store in the state that one call of the wrapped operation
\* leaves it in.
C11_PassThrough ==
    /\ [](\A k \in Keys :
            /\ CryptStoreCreate(backend, BackendState, k) = OpsCreate(backend, BackendState, k)
            /\ CryptStoreDelete(backend, BackendState, k) = OpsDelete(backend, BackendState, k)
            /\ CryptStoreList(backend, BackendState) = OpsList(backend, BackendState))
    /\ [][now' = now =>
             /\ ret'.op = "CryptCreate" =>
                   LET r == OpsCreate(backend, BackendState, ret'.key)
                   IN  ret'.err = r.err /\ BackendState' = r.st
             /\ ret'.op = "CryptDelete" =>
                   LET d == OpsDelete(backend, BackendState, ret'.key)
                   IN  ret'.err = d.err /\ BackendState' = d.st
             /\ ret'.op = "CryptList" =>
                   /\ [val |-> ret'.val, err |-> ret'.err] \in OpsList(backend, BackendState)
                   /\ BackendState' = BackendState]_vars

\* a Create through CryptStore returned the wrapped store's KeyError
C11_Witness ==
    /\ ret.op = "CryptCreate"
    /\ ret.err = Err("KeyError")
    /\ Exists(backend, BackendState, ret.key)

\* C12: when sealing fails, CryptStore.Put returns a DecryptionError wrapping
\* the cause and the wrapped store is as it was (its Put was not called); when
\* sealing succeeds, Put returns what one call of the wrapped Put with the
\* vault returns, its error unchanged, and the store is as that call left it.
C12_PutErrorPaths ==
    /\ [](\A k \in Keys, p \in Plaintexts :
            /\ CryptStorePut(backend, BackendState, k, p, now, RandEOF)
                 = W(BackendState, Wrap("DecryptionError"))
            /\ \A iv \in IVsOf(backend) :
                   CryptStorePut(backend, BackendState, k, p, now, iv)
                     = OpsPut(backend, BackendState, k, Seal(p, FormatTs(now), iv)))
    /\ [][(ret'.op = "CryptPut" /\ now' = now) =>
             IF ret'.err = Wrap("DecryptionError")
             THEN BackendState' = BackendState
             ELSE \E p \in Plaintexts, iv \in IVsOf(backend) :
                      LET r == OpsPut(backend, BackendState, ret'.key,
                                      Seal(p, FormatTs(now), iv))
                      IN  ret'.err = r.err /\ BackendState' = r.st]_vars

\* a Put through CryptStore failed in the wrapped store
C12_Witness ==
    /\ ret.op = "CryptPut"
    /\ ret.err = Err("KeyNotFoundError")
    /\ ~Exists(backend, BackendState, ret.key)

\* C13: when the opening of a vault fails in Read or ReadAll the error
\* returned is a DecryptionError, and when the freshness check fails it is a
\* ValidationError.
C13_ErrorKinds ==
    \A k \in CryptKeys :
        LET one == OpsRead(backend, BackendState, k)
            all == OpsReadAll(backend, BackendState, k)
            n == Len(all.val)
        IN  /\ one.err = NoErr =>
                  LET o == Open(one.val)
                      res == CryptStoreRead(backend, BackendState, k, now)
                  IN  /\ ~o.ok => res.err.kind = "DecryptionError"
                      /\ (o.ok /\ ParseTs(o.ad).ok /\ ParseTs(o.ad).t > now) =>
                              res.err.kind = "ValidationError"
            /\ all.err = NoErr =>
                  \A clocks \in ClockSeqs(n, now) :
                      LET res == CryptStoreReadAll(backend, BackendState, k, clocks)
                          failing == {i \in 1..n :
                                        LET o == Open(all.val[i])
                                        IN  ~o.ok \/ ~ParseTs(o.ad).ok
                                              \/ ParseTs(o.ad).t > clocks[i]}
                      IN  failing # {} =>
                            LET first == CHOOSE i \in failing : \A j \in failing : i <= j
                                o == Open(all.val[first])
                            IN  /\ ~o.ok => res.err.kind = "DecryptionError"
                                /\ (o.ok /\ ParseTs(o.ad).ok) =>
                                        res.err.kind = "ValidationError"

----------------------------------------------------------------------------
(* The error translation: NewError and TranslateToError.  An error value   *)
(* is its kind and wrapping (Err, Wrap) together with the text m its       *)
(* constructor was given; a message is a sequence of pieces of text.       *)

ErrUnknown == 0
ErrLocation == 1
ErrKey == 2
ErrEntry == 3
ErrOpsInternal == 4
ErrKeyNotFound == 5

\* the five kinds of ops.go, in the order of their codes
OpsKinds == <<"LocationError", "KeyError", "EntryError", "OpsInternalError",
              "KeyNotFoundError">>

\* the kinds of cryptor.go, the cipher's and time's errors, errors.New
OtherKinds == {"ValidationError", "DecryptionError", "TimestampError",
               "CipherError", "ParseError", "errorString"}

ErrorValues ==
    {NoErr} \cup {Err(OpsKinds[i]) : i \in 1..Len(OpsKinds)}
            \cup {Wrap(OpsKinds[i]) : i \in 1..Len(OpsKinds)}
            \cup {Err(k) : k \in OtherKinds} \cup {Wrap(k) : k \in OtherKinds}

\* the texts given to the constructors: empty, plain, and one naming a key
Messages == {<<>>, <<"m">>} \cup {<<"key not found: ", k>> : k \in Keys}

\* what NewError and TranslateToError return
Wire(code, message) == [code |-> code, message |-> message]
Translated(e, message) == [err |-> e, msg |-> message]

\* err.Error() of a value of one of the five kinds of ops.go
ErrorText(m) == <<"libstore: ">> \o m

\* a NewError whose switch has no case for KeyNotFoundError
NewErrorFourCases(e, m) ==
    CASE e = Err("LocationError")    -> Wire(ErrLocation, ErrorText(m))
      [] e = Err("KeyError")         -> Wire(ErrKey, ErrorText(m))
      [] e = Err("EntryError")       -> Wire(ErrEntry, ErrorText(m))
      [] e = Err("OpsInternalError") -> Wire(ErrOpsInternal, ErrorText(m))
      [] OTHER                       -> Wire(ErrUnknown, <<"unknown error">>)

\* the type switch is on the dynamic type: a value fmt.Errorf built has none
\* of the five types, and neither has nil
NewError(e, m) ==
    CASE e = Err("LocationError")    -> Wire(ErrLocation, ErrorText(m))
      [] e = Err("KeyError")         -> Wire(ErrKey, ErrorText(m))
      [] e = Err("EntryError")       -> Wire(ErrEntry, ErrorText(m))
      [] e = Err("OpsInternalError") -> Wire(ErrOpsInternal, ErrorText(m))
      [] e = Err("KeyNotFoundError") -> Wire(ErrKeyNotFound, ErrorText(m))
      [] OTHER                       -> Wire(ErrUnknown, <<"unknown error">>)

TranslateToError(code, message) ==
    CASE code = 1 -> Translated(Err("LocationError"), message)
      [] code = 2 -> Translated(Err("KeyError"), message)
      [] code = 3 -> Translated(Err("EntryError"), message)
      [] code = 4 -> Translated(Err("OpsInternalError"), message)
      [] code = 5 -> Translated(Err("KeyNotFoundError"), message)
      [] OTHER    -> Translated(Err("errorString"), message)

CodeRange == (ErrUnknown - MaxBeyond)..(ErrKeyNotFound + MaxBeyond)

\* NewError(err)
Translate(e, m) ==
    /\ ret' = Call("NewError", "", e, <<NewError(e, m)>>)
    /\ UNCHANGED <<calls, backend, store, files, rows, objects, now, hist, sealed>>

\* TranslateToError(code, message) at the other side of the boundary
TranslateCode(code, message) ==
    LET t == TranslateToError(code, message)
    IN  /\ ret' = Call("TranslateToError", "", t.err, <<Wire(code, t.msg)>>)
        /\ UNCHANGED <<calls, backend, store, files, rows, objects, now, hist, sealed>>

\* the Error NewError made is sent and translated back
TranslateBack ==
    /\ ret.op = "NewError"
    /\ TranslateCode(ret.val[1].code, ret.val[1].message)

InitErr == Init /\ backend = "mem"

NextErr ==
    \/ \E e \in ErrorValues, m \in Messages : Translate(e, m)
    \/ \E code \in CodeRange, m \in Messages : TranslateCode(code, <<"sent: ">> \o m)
    \/ TranslateBack

SpecErr == InitErr /\ [][NextErr]_vars

\* C14: NewError gives every error value (nil too) an Error whose code is 1 for
\* a LocationError, 2 for a KeyError, 3 for an EntryError, 4 for an
\* OpsInternalError, 5 for a KeyNotFoundError and 0 for every other value;
\* TranslateToError gives the codes 1 to 5 those five kinds, in that order,
\* and every other integer a generic error.
C14_TranslationTotal ==
    /\ \A e \in ErrorValues, m \in Messages :
          LET w == NewError(e, m)
              hits == {i \in 1..Len(OpsKinds) : e = Err(OpsKinds[i])}
          IN  /\ w.code \in 0..5
              /\ \A i \in hits : w.code = i
              /\ hits = {} => w.code = 0
    /\ \A code \in CodeRange, m \in Messages :
          LET t == TranslateToError(code, m)
          IN  IF code \in 1..Len(OpsKinds)
              THEN t = Translated(Err(OpsKinds[code]), m)
              ELSE t = Translated(Err("errorString"), m)
    /\ ret.op = "NewError" =>
          /\ ret.val[1].code \in 0..5
          /\ (ret.val[1].code = 0) = (\A i \in 1..Len(OpsKinds) : ret.err # Err(OpsKinds[i]))

\* NewError gave a KeyNotFoundError the code 5 and its text
C14_Witness ==
    /\ ret.op = "NewError"
    /\ ret.err = Err("KeyNotFoundError")
    /\ ret.val = <<Wire(5, <<"libstore: ", "m">>)>>

\* the code of the kind a failure carries: the position of the kind among the
\* five of ops.go, ErrUnknown for a kind that is none of them
KindCode(kind) ==
    LET hits == {i \in 1..Len(OpsKinds) : OpsKinds[i] = kind}
    IN  IF hits = {} THEN ErrUnknown ELSE CHOOSE i \in hits : TRUE

\* C15: a failure a backend returns keeps its kind across the translation:
\* NewError gives it the code of the kind the backend attached to it, whether
\* the backend returned the kind bare or wrapped around a cause.
C15_KindsSurvive ==
    ret.err # NoErr =>
        \A m \in Messages : NewError(ret.err, m).code = KindCode(ret.err.kind)

----------------------------------------------------------------------------
(* Concurrent callers.  A call is taken in the steps in which it reads and *)
(* writes the shared state: InMemoryOps holds mu for the whole call, S3    *)
(* Put is one request; Create of fileOps, dbOps and S3Ops is a check and   *)
(* then a write, Put of fileOps and dbOps reads (the file size, the        *)
(* greatest version) and then writes.  Each call carries a context.        *)

\* the backends whose calls pass ctx on: database/sql and the S3 client fail
\* a request whose context is cancelled; InMemoryOps and fileOps never look
\* at ctx
PassesCtx(b) == b \in {"db", "s3"}

\* the backends whose Create is two requests, and whose Put is
CreateInTwo(b) == b \in {"file", "db", "s3"}
PutInTwo(b) == b \in {"file", "db"}

\* the second request of Create: os.Create truncates or creates the file, the
\* INSERT adds a placeholder row, PutObject writes an empty object
CreateWrite(b, st, k) ==
    CASE b = "db" -> Append(st, Row(k, TRUE, <<>>, 0))
      [] OTHER    -> With(st, k, <<>>)

\* what Put reads before it writes: stat.Size() of the opened file, maxVersion
PutSeen(b, st, k) ==
    CASE b = "db" -> MaxVersion(RowsOf(st, k))
      [] OTHER    -> Len(st[k])

\* the write of Put: file.Write on the O_APPEND descriptor, the INSERT and
\* the commit of the transaction
PutWrite(b, st, k, e, seen) ==
    CASE b = "db" -> Append(st, Row(k, FALSE, e, seen + 1))
      [] OTHER    -> With(st, k, st[k] \o (IF seen > 0 THEN <<"LF">> ELSE <<>>) \o e)

RaceKeys == {"a"}
RaceEntries == {Hello, World}

\* the model's size limit on a backend state with concurrent callers
RaceBounds(b, st) ==
    /\ b = "db" => Len(st) <= MaxRows
    /\ b = "file" => \A k \in DOMAIN st : Len(ScanLines(st[k])) <= MaxPuts

InCall(c, op, pc) == calls[c].op = op /\ calls[c].pc = pc

Done(c, err) == calls' = [calls EXCEPT ![c].pc = "done", ![c].err = err]

\* a goroutine enters Create(ctx, k) or Put(ctx, k, e); absent records whether
\* k existed then, precancelled whether ctx was cancelled already
Enter(c, op, k, e, cancelled) ==
    /\ calls[c] = Idle
    /\ calls' = [calls EXCEPT ![c] =
                    [op |-> op, pc |-> "start", key |-> k, entry |-> e,
                     cancelled |-> cancelled, precancelled |-> cancelled,
                     absent |-> ~Exists(backend, BackendState, k),
                     seen |-> 0, err |-> NoErr]]
    /\ UNCHANGED <<backend, store, files, rows, objects, now, ret, hist, sealed>>

EnterCreate(c, k, cancelled) == Enter(c, "Create", k, <<>>, cancelled)

EnterPut(c, k, e, cancelled) == Enter(c, "Put", k, e, cancelled)

\* the context of a call in progress is cancelled
Cancel(c) ==
    /\ calls[c] # Idle
    /\ calls[c].pc # "done"
    /\ ~calls[c].cancelled
    /\ calls' = [calls EXCEPT ![c].cancelled = TRUE]
    /\ UNCHANGED <<backend, store, files, rows, objects, now, ret, hist, sealed>>

\* Create up to its check: the whole call under mu for InMemoryOps; os.Stat,
\* the SELECT, HeadObject for the others
CreateCheck(c) ==
    LET k == calls[c].key
        r == OpsCreate(backend, BackendState, k)
    IN  /\ InCall(c, "Create", "start")
        /\ IF PassesCtx(backend) /\ calls[c].cancelled
           THEN Done(c, Wrap("OpsInternalError")) /\ Becomes(backend, BackendState)
           ELSE IF r.err # NoErr
           THEN Done(c, r.err) /\ Becomes(backend, BackendState)
           ELSE IF CreateInTwo(backend)
           THEN /\ calls' = [calls EXCEPT ![c].pc = "write"]
                /\ Becomes(backend, BackendState)
           ELSE /\ RaceBounds(backend, r.st)
                /\ Done(c, NoErr)
                /\ Becomes(backend, r.st)
        /\ UNCHANGED <<backend, now, ret, hist, sealed>>

\* os.Create, the INSERT, PutObject
CreateInsert(c) ==
    LET st == CreateWrite(backend, BackendState, calls[c].key)
    IN  /\ InCall(c, "Create", "write")
        /\ IF PassesCtx(backend) /\ calls[c].cancelled
           THEN Done(c, Wrap("OpsInternalError")) /\ Becomes(backend, BackendState)
           ELSE /\ RaceBounds(backend, st)
                /\ Done(c, NoErr)
                /\ Becomes(backend, st)
        /\ UNCHANGED <<backend, now, ret, hist, sealed>>

\* Put up to its read: the whole call for InMemoryOps and S3Ops; os.OpenFile
\* and file.Stat, BeginTx and the SELECT for the others
PutLook(c) ==
    LET k == calls[c].key
        r == OpsPut(backend, BackendState, k, calls[c].entry)
    IN  /\ InCall(c, "Put", "start")
        /\ IF PassesCtx(backend) /\ calls[c].cancelled
           THEN Done(c, Wrap("OpsInternalError")) /\ Becomes(backend, BackendState)
           ELSE IF r.err # NoErr
           THEN Done(c, r.err) /\ Becomes(backend, BackendState)
           ELSE IF PutInTwo(backend)
           THEN /\ calls' = [calls EXCEPT ![c].pc = "write",
                                          ![c].seen = PutSeen(backend, BackendState, k)]
                /\ Becomes(backend, BackendState)
           ELSE /\ RaceBounds(backend, r.st)
                /\ Done(c, NoErr)
                /\ Becomes(backend, r.st)
        /\ UNCHANGED <<backend, now, ret, hist, sealed>>

\* file.Write, the INSERT and tx.Commit
PutStore(c) ==
    LET st == PutWrite(backend, BackendState, calls[c].key, calls[c].entry,
                       calls[c].seen)
    IN  /\ InCall(c, "Put", "write")
        /\ IF PassesCtx(backend) /\ calls[c].cancelled
           THEN Done(c, Wrap("OpsInternalError")) /\ Becomes(backend, BackendState)
           ELSE /\ RaceBounds(backend, st)
                /\ Done(c, NoErr)
                /\ Becomes(backend, st)
        /\ UNCHANGED <<backend, now, ret, hist, sealed>>

\* the call returns to its caller
Return(c) ==
    /\ calls[c] # Idle
    /\ calls[c].pc = "done"
    /\ ret' = Call(calls[c].op, calls[c].key, calls[c].err, <<>>)
    /\ calls' = [calls EXCEPT ![c] = Idle]
    /\ UNCHANGED <<backend, store, files, rows, objects, now, hist, sealed>>

NextRace ==
    \/ \E c \in Callers, k \in RaceKeys, x \in BOOLEAN : EnterCreate(c, k, x)
    \/ \E c \in Callers, k \in RaceKeys, e \in RaceEntries, x \in BOOLEAN :
           EnterPut(c, k, e, x)
    \/ \E c \in Callers : Cancel(c)
    \/ \E c \in Callers : CreateCheck(c)
    \/ \E c \in Callers : CreateInsert(c)
    \/ \E c \in Callers : PutLook(c)
    \/ \E c \in Callers : PutStore(c)
    \/ \E c \in Callers : Return(c)

SpecRace == Init /\ [][NextRace]_vars

\* both callers have finished the call op on the key k
BothDone(op, k) ==
    \A c \in Callers : InCall(c, op, "done") /\ calls[c].key = k

\* C16: of two concurrent Create(k) on an absent key k, exactly one succeeds
\* and the other fails with KeyError, and afterwards k exists once, with an
\* empty history; on InMemoryOps and on dbOps, fileOps and S3Ops alike.
C16_CreateRace ==
    \A k \in RaceKeys :
        (BothDone("Create", k) /\ \A c \in Callers : calls[c].absent /\ ~calls[c].cancelled)
        => /\ {calls[c].err : c \in Callers} = {NoErr, Err("KeyError")}
           /\ Exists(backend, BackendState, k)
           /\ backend = "db" => Len(RowsOf(rows, k)) = 1
           /\ OpsReadAll(backend, BackendState, k).err = NoErr

\* C17: when two concurrent dbOps.Put(k, v1) and Put(k, v2) both succeed, the
\* two entries are stored under distinct versions: none is lost, no version
\* is shared, and Read returns the last element of ReadAll.
C17_PutVersions ==
    backend = "db" =>
        \A k \in RaceKeys :
            (BothDone("Put", k) /\ \A c \in Callers : calls[c].err = NoErr)
            => LET put == SelectSeq(RowsOf(rows, k), LAMBDA r : ~r.null)
                   all == DbReadAll(rows, k).val
               IN  /\ \A i, j \in 1..Len(put) :
                         i # j => put[i].version # put[j].version
                   /\ \E i, j \in 1..Len(all) :
                         i # j /\ all[i] = calls[1].entry /\ all[j] = calls[2].entry
                   /\ DbRead(rows, k).val = Last(all)

\* C18: every operation honors cancellation: a call whose context was already
\* cancelled when it was made returns an error, and no step of a call whose
\* context is cancelled changes what is stored.
C18_Cancellation ==
    /\ [](\A c \in Callers :
            (calls[c] # Idle /\ calls[c].pc = "done" /\ calls[c].precancelled)
            => calls[c].err # NoErr)
    /\ [][\A c \in Callers :
            (calls[c] # Idle /\ calls[c].cancelled /\ calls'[c] # calls[c])
            => BackendState' = BackendState]_vars

\* ReadAll(k) through the decorator succeeds on the backend state st whenever
\* the wrapped ReadAll(k) does, with as many elements, whatever the clock
\* does from t on
ReadsAllAs(b, st, k, t) ==
    LET all == OpsReadAll(b, st, k)
    IN  all.err = NoErr =>
            \A clocks \in ClockSeqs(Len(all.val), t) :
                LET res == CryptStoreReadAll(b, st, k, clocks)
                IN  res.err = NoErr /\ Len(res.val) = Len(all.val)

\* C19: the decorator leaves the outcomes of the wrapped backend as they are:
\* right after a successful Create(k) through the decorator, Read(k) and
\* ReadAll(k) through it succeed or fail as the backend's own do, with the same
\* kind of error and the same length; and a successful Put through it to a key
\* whose ReadAll agreed keeps ReadAll through it succeeding whenever the
\* backend's ReadAll succeeds.
C19_DecoratorTransparent ==
    [][now' = now =>
         /\ (ret'.op = "CryptCreate" /\ ret'.err = NoErr) =>
               /\ ReadsAllAs(backend, BackendState', ret'.key, now)
               /\ CryptStoreRead(backend, BackendState', ret'.key, now).err.kind
                    = OpsRead(backend, BackendState', ret'.key).err.kind
         /\ (ret'.op = "CryptPut" /\ ret'.err = NoErr
                /\ OpsReadAll(backend, BackendState, ret'.key).err = NoErr
                /\ ReadsAllAs(backend, BackendState, ret'.key, now)) =>
               ReadsAllAs(backend, BackendState', ret'.key, now)]_vars

\* C20: Read and ReadAll agree on every existing key of every backend: Read
\* succeeds exactly when ReadAll returns a non-empty sequence, and then
\* returns its last element; Read fails with EntryError exactly when ReadAll
\* returns the empty sequence.
C20_ReadAgreesWithReadAll ==
    \A k \in KeysOf(backend) :
        Exists(backend, BackendState, k) =>
            LET one == OpsRead(backend, BackendState, k)
                all == OpsReadAll(backend, BackendState, k)
            IN  /\ all.err = NoErr
                /\ (one.err = NoErr) = (Len(all.val) > 0)
                /\ one.err = NoErr => one.val = Last(all.val)
                /\ (one.err = Err("EntryError")) = (Len(all.val) = 0)

\* C21: a key comes into existence only through Create: Put(k, v) on a key
\* that does not exist fails and leaves k absent, so that List does not return
\* k and Read(k) and ReadAll(k) fail with KeyNotFoundError afterwards.
C21_PutNeedsCreate ==
    [][(ret'.op = "Put" /\ ~Exists(backend, BackendState, ret'.key)) =>
          /\ ret'.err # NoErr
          /\ ~Exists(backend, BackendState', ret'.key)
          /\ \A r \in OpsList(backend, BackendState') : ret'.key \notin Range(r.val)
          /\ OpsRead(backend, BackendState', ret'.key).err = Err("KeyNotFoundError")
          /\ OpsReadAll(backend, BackendState', ret'.key).err = Err("KeyNotFoundError")]_vars

\* C22: fileOps keeps entries as they were written: after Create(k) and the
\* successful Puts of e1, ..., en, empty entries and entries holding a newline
\* included, ReadAll(k) returns exactly e1, ..., en in that order and Read(k)
\* returns en.
C22_FileKeepsEntries ==
    backend = "file" =>
        \A k \in DOMAIN hist :
            /\ OpsReadAll(backend, BackendState, k) = R(hist[k], NoErr)
            /\ Len(hist[k]) > 0 =>
                  OpsRead(backend, BackendState, k) = R(Last(hist[k]), NoErr)

C24_TranslationRoundTrip ==
    [][(/\ ret.op = "NewError"
        /\ \E i \in 1..Len(OpsKinds) : ret.err = Err(OpsKinds[i])
        /\ ret'.op = "TranslateToError"
        /\ ret'.val = ret.val) =>
          LET sent == ret.val[1]
              back == ret'.val[1].message
          IN  /\ ret'.err = ret.err
              /\ ErrorText(back) = sent.message
              /\ NewError(ret'.err, back) = sent]_vars

====
